---- MODULE Spec2Model ----
(***************************************************************************)
(* A state-machine model of lib/topologies/server.js: the single-server    *)
(* topology of mongodb-core.  One Server instance owns a callback registry *)
(* (Callbacks), a connection-pool handle, the retry counter, the cached    *)
(* ismaster document and the plugin maps.  Every JavaScript handler runs   *)
(* to completion, so each handler is one action; process.nextTick          *)
(* callbacks, setTimeout timers, pool events and plugin callbacks are the  *)
(* steps in between.                                                       *)
(*                                                                         *)
(* Handlers are written as operators from a state record to a state        *)
(* record, so that a handler that calls another (connectHandler calls      *)
(* command, errorHandler calls destroy and flush) is the composition of    *)
(* the two.  The field trace holds what the last handler did, in order.    *)
(***************************************************************************)
EXTENDS Integers, Sequences, FiniteSets, TLC

\* Bounds of the model.
MaxPools == 3      \* pool handles ever created (new Pool)
MaxReq == 2        \* request ids ever handed out (Query.requestId)
MaxTimers == 1     \* reconnect timers pending at once (setTimeout)
MaxTries == 2      \* largest options.reconnectTries explored
MaxCalls == 3      \* calls the caller makes (connect, destroy, command, writes)

Events == {"close", "message", "error", "timeout", "connect", "parseError"}
FailureKinds == {"error", "timeout", "close", "parseError"}
AllHooks == {"connect", "error", "timeout", "close", "startOperation", "endOperation"}

\* A read-preference strategy: its name and the hooks it implements.
Strategy(name, hooks) == [name |-> name, hooks |-> hooks]

\* The plugin maps explored: options.readPreferenceStrategies (null, or the
\* strategies in insertion order) and the names in options.authProviders.
Plugins(isNull, strategies, providers) ==
    [strategiesNull |-> isNull, strategies |-> strategies, providers |-> providers]

NoPlugins == Plugins(TRUE, <<>>, {})

PluginOptions ==
    { Plugins(FALSE, << Strategy("s1", AllHooks), Strategy("s2", AllHooks) >>,
              {"a1", "a2"}),
      Plugins(FALSE, << Strategy("s1", AllHooks),
                        Strategy("s2", AllHooks \ {"connect"}) >>, {}),
      Plugins(FALSE, <<>>, {"a1"}) }

\* The options a Server is constructed from.  Every lifecycle configuration is
\* explored without plugins; the plugin sets are explored with the default
\* lifecycle options and with reconnection disabled.
Options ==
    [reconnect : BOOLEAN, emitError : BOOLEAN, reconnectTries : 1..MaxTries,
     plugins : {NoPlugins}]
    \cup [reconnect : {TRUE}, emitError : {FALSE}, reconnectTries : {MaxTries},
          plugins : PluginOptions]
    \cup [reconnect : {FALSE}, emitError : {TRUE}, reconnectTries : {1},
          plugins : PluginOptions]

VARIABLES
    reconnect,                 \* options.reconnect (line 71)
    reconnectTries,            \* options.reconnectTries (line 72)
    emitError,                 \* options.emitError (line 76)
    currentReconnectRetry,     \* the retry counter (line 79)
    ismaster,                  \* "null", or the kind of the cached document (line 81)
    strategiesNull,            \* readPreferenceStrategies == null (line 83)
    readPreferenceStrategies,  \* the registered strategies, in insertion order
    authProviders,             \* names of the registered auth providers (line 85)
    pool,                      \* the current pool handle: 0 is null (line 96)
    pools,                     \* every Pool object created so far (lines 114, 281)
    callbacks,                 \* the registry's listeners, in registration order (line 62)
    nextTicks,                 \* process.nextTick queue: deferred registry emits (line 32)
    timers,                    \* pending setTimeout(reconnectServer) timers (line 193)
    outstanding,               \* frames written and not yet answered: <<pool, id>>
    requestId,                 \* the next query.requestId
    authWaits,                 \* reauthenticate count-downs and the callbacks still to come
    hookWaits,                 \* connect-hook count-downs and the callbacks still to come
    trace,                     \* what the last handler did, in order
    invoked,                   \* per request id: times its continuation ran
    lost,                      \* ids pending on a pool when its failure was handled
    calls,                     \* calls the caller has made
    down,                      \* a failure was handled and no attempt succeeded since
    unsupported,               \* ismaster request ids answered without minWireVersion
    seq,                       \* the running sequence of reconnect attempts
    announced,                 \* 'connect' / 'reconnect' events emitted: <<event, negotiation, k-th>>
    negotiation,               \* ismaster frames written by connectHandler: <<pool, id>>
    flushed,                   \* ids whose continuation a flush's deferred emit invoked
    stopped,                   \* the caller called destroy() and not connect() since
    late                       \* <<id, name>>: strategy name was registered while id was pending

vars == << reconnect, reconnectTries, emitError, currentReconnectRetry, ismaster,
           strategiesNull, readPreferenceStrategies, authProviders, pool, pools,
           callbacks, nextTicks, timers, outstanding, requestId, authWaits,
           hookWaits, trace, invoked, lost, calls, down, unsupported, seq,
           announced, negotiation, flushed, stopped, late >>

\* The state as one record, the argument and result of every handler.
St ==
    [ reconnect |-> reconnect, reconnectTries |-> reconnectTries,
      emitError |-> emitError, currentReconnectRetry |-> currentReconnectRetry,
      ismaster |-> ismaster, strategiesNull |-> strategiesNull,
      readPreferenceStrategies |-> readPreferenceStrategies,
      authProviders |-> authProviders, pool |-> pool, pools |-> pools,
      callbacks |-> callbacks, nextTicks |-> nextTicks, timers |-> timers,
      outstanding |-> outstanding, requestId |-> requestId,
      authWaits |-> authWaits, hookWaits |-> hookWaits, trace |-> trace,
      invoked |-> invoked, lost |-> lost, calls |-> calls, down |-> down,
      unsupported |-> unsupported, seq |-> seq, announced |-> announced,
      negotiation |-> negotiation, flushed |-> flushed,
      stopped |-> stopped, late |-> late ]

Commit(s) ==
    /\ reconnect' = s.reconnect
    /\ reconnectTries' = s.reconnectTries
    /\ emitError' = s.emitError
    /\ currentReconnectRetry' = s.currentReconnectRetry
    /\ ismaster' = s.ismaster
    /\ strategiesNull' = s.strategiesNull
    /\ readPreferenceStrategies' = s.readPreferenceStrategies
    /\ authProviders' = s.authProviders
    /\ pool' = s.pool
    /\ pools' = s.pools
    /\ callbacks' = s.callbacks
    /\ nextTicks' = s.nextTicks
    /\ timers' = s.timers
    /\ outstanding' = s.outstanding
    /\ requestId' = s.requestId
    /\ authWaits' = s.authWaits
    /\ hookWaits' = s.hookWaits
    /\ trace' = s.trace
    /\ invoked' = s.invoked
    /\ lost' = s.lost
    /\ calls' = s.calls
    /\ down' = s.down
    /\ unsupported' = s.unsupported
    /\ seq' = s.seq
    /\ announced' = s.announced
    /\ negotiation' = s.negotiation
    /\ flushed' = s.flushed
    /\ stopped' = s.stopped
    /\ late' = s.late

\* The bounds, as a guard on the state a handler leaves.
WithinBounds(s) ==
    /\ Len(s.pools) <= MaxPools
    /\ s.requestId <= MaxReq + 1
    /\ s.timers <= MaxTimers
    /\ s.calls <= MaxCalls

\* One entry of trace: what was done (t), to what (a, b), for which id (n).
E(t, a, b, n) == [t |-> t, a |-> a, b |-> b, n |-> n]

Log(s, e) == [s EXCEPT !.trace = Append(@, e)]

\* A handler starts a fresh trace.
Begin(s, e) == [s EXCEPT !.trace = << e >>]

\* A call of the caller starts a fresh trace too.
Call(s, e) == [s EXCEPT !.trace = << e >>, !.calls = @ + 1]

\* An exception leaves the handler: nothing after it runs.
Throw(s, what) == Log(s, E("throw", what, "", 0))

Thrown(s) == \E i \in 1..Len(s.trace) : s.trace[i].t = "throw"

\* self.emit(event, ...): the announcement to the Server's observers.
Emit(s, ev, why, n) == Log(s, E("emit", ev, why, n))

(***************************************************************************)
(* The connection pool (lib/connection/pool, an EventEmitter).             *)
(***************************************************************************)
NoListeners == [e \in Events |-> <<>>]

\* new Pool(options), assigned to pool
NewPool(s) ==
    Log([s EXCEPT !.pools = Append(@, [state |-> "new", listeners |-> NoListeners]),
                  !.pool = Len(s.pools) + 1],
        E("newPool", "", "", Len(s.pools) + 1))

\* pool.on(ev, h) and pool.once(ev, h)
PoolOn(s, ev, h) ==
    [s EXCEPT !.pools[s.pool].listeners[ev] = Append(@, [h |-> h, once |-> FALSE])]

PoolOnce(s, ev, h) ==
    [s EXCEPT !.pools[s.pool].listeners[ev] = Append(@, [h |-> h, once |-> TRUE])]

\* pool.removeAllListeners(e) for every e of evs
PoolRemoveAllListeners(s, evs) ==
    [s EXCEPT !.pools[s.pool].listeners =
        [e \in Events |-> IF e \in evs THEN <<>> ELSE @[e]]]

\* pool.connect()
PoolConnect(s) ==
    Log([s EXCEPT !.pools[s.pool].state = "connecting"],
        E("poolConnect", "", "", s.pool))

\* pool.destroy(): the handle is dead, its frames in flight are gone
PoolDestroy(s) ==
    Log([s EXCEPT !.pools[s.pool].state = "destroyed",
                  !.outstanding = {o \in @ : o[1] # s.pool}],
        E("poolDestroy", "", "", s.pool))

\* pool.isConnected()
PoolIsConnected(s) == s.pools[s.pool].state = "connected"

\* connection.write(query) on the connection of pool.get()
ConnectionWrite(s, id) ==
    Log([s EXCEPT !.outstanding = @ \cup {<< s.pool, id >>}],
        E("write", "", "", id))

\* A handle is live from new Pool until pool.destroy().
Live(p) == pools[p].state # "destroyed"

LivePools == {p \in 1..Len(pools) : Live(p)}

(***************************************************************************)
(* Callbacks: the registry, an EventEmitter keyed by request id.           *)
(***************************************************************************)
\* callbacks.flush(err): one process.nextTick(emit(id, err, null)) for every
\* id of _events at the time of the call; the listeners stay registered.
flush(s, err) ==
    Log([s EXCEPT !.nextTicks =
            @ \o [i \in 1..Len(s.callbacks) |-> [id |-> s.callbacks[i].id, err |-> err]]],
        E("flush", err, "", Len(s.callbacks)))

\* setTimeout(function() { reconnectServer() }, reconnectInterval)
setTimeout(s) == Log([s EXCEPT !.timers = @ + 1], E("setTimeout", "", "", 0))

(***************************************************************************)
(* notifyStrategies(op, params): the form without a callback.  for-in over *)
(* a null map runs no iteration.                                           *)
(***************************************************************************)
RECURSIVE NotifyFrom(_, _, _)
NotifyFrom(s, op, i) ==
    IF i > Len(s.readPreferenceStrategies) THEN s
    ELSE LET strat == s.readPreferenceStrategies[i]
         IN  NotifyFrom(IF op \in strat.hooks
                           THEN Log(s, E("hook", op, strat.name, 0))
                           ELSE s,
                        op, i + 1)

notifyStrategies(s, op) == NotifyFrom(s, op, 1)

\* The names of the strategies that implement op.
Implementing(s, op) ==
    { s.readPreferenceStrategies[i].name :
        i \in {j \in 1..Len(s.readPreferenceStrategies) :
                 op \in s.readPreferenceStrategies[j].hooks} }

\* notifyStrategies('connect', [self], callback): the count-down starts at the
\* number of strategies, and only the strategies with the hook count down.
notifyStrategiesConnect(s, neg) ==
    IF Len(s.readPreferenceStrategies) = 0
    THEN Emit(s, "connect", "", neg)
    ELSE LET s1 == notifyStrategies(s, "connect")
         IN  [s1 EXCEPT !.hookWaits = @ \cup
                { [neg |-> neg, n |-> Len(s.readPreferenceStrategies),
                   waiting |-> Cardinality(Implementing(s, "connect"))] }]

\* The continuation of applyAuthentications in connectHandler.
connectReady(s, neg) ==
    IF s.strategiesNull
    THEN Emit(s, "connect", "", neg)
    ELSE notifyStrategiesConnect(s, neg)

\* The callback a strategy's connect hook is given.
hookCallback(s, w) ==
    LET rest == [s EXCEPT !.hookWaits = @ \ {w}]
        w2 == [w EXCEPT !.n = @ - 1, !.waiting = @ - 1]
    IN  IF w2.n = 0
        THEN Emit(rest, "connect", "", w.neg)
        ELSE [rest EXCEPT !.hookWaits = @ \cup {w2}]

\* The reauthenticate calls of a count-down over Object.keys(authProviders).
Reauthenticate(s, kind, neg) ==
    Log([s EXCEPT !.authWaits = @ \cup
            { [kind |-> kind, neg |-> neg, count |-> Cardinality(s.authProviders),
               waiting |-> Cardinality(s.authProviders)] }],
        E("reauthenticate", kind, "", neg))

\* applyAuthentications(callback), with the callback of connectHandler
applyAuthentications(s, neg) ==
    IF Cardinality(s.authProviders) = 0
    THEN connectReady(s, neg)
    ELSE Reauthenticate(s, "connect", neg)

\* authCallback without the test of count: every callback of a provider
\* announces.
authCallback_NoCount(s, w) ==
    LET rest == [s EXCEPT !.authWaits = @ \ {w}]
        w2 == [w EXCEPT !.count = @ - 1, !.waiting = @ - 1]
        s1 == IF w2.waiting = 0 THEN rest
              ELSE [rest EXCEPT !.authWaits = @ \cup {w2}]
    IN  IF w.kind = "connect"
        THEN connectReady(s1, w.neg)
        ELSE Emit(s1, "reconnect", "", w.neg)

\* The callback a provider's reauthenticate is given, in applyAuthentications
\* (kind "connect") and in reconnectServer (kind "reconnect").
authCallback(s, w) ==
    LET rest == [s EXCEPT !.authWaits = @ \ {w}]
        w2 == [w EXCEPT !.count = @ - 1, !.waiting = @ - 1]
    IN  IF w2.count = 0
        THEN IF w.kind = "connect"
             THEN connectReady(rest, w.neg)
             ELSE Emit(rest, "reconnect", "", w.neg)
        ELSE [rest EXCEPT !.authWaits = @ \cup {w2}]

\* ismasterCallback without the return after the 'error' of a document
\* that lacks minWireVersion.
ismasterCallback_NoReturn(s, id, err, resp) ==
    IF err # "ok"
    THEN Emit(s, "close", err, id)
    ELSE LET s1 == [s EXCEPT !.ismaster = resp]
         IN  IF resp # "valid"
             THEN applyAuthentications(
                      Emit(s1, "error", "non supported server version", id), id)
             ELSE applyAuthentications(s1, id)

\* The callback connectHandler passes to self.command for the ismaster.
ismasterCallback(s, id, err, resp) ==
    IF err # "ok"
    THEN Emit(s, "close", err, id)
    ELSE LET s1 == [s EXCEPT !.ismaster = resp]
         IN  IF resp # "valid"
             THEN Emit(s1, "error", "non supported server version", id)
             ELSE applyAuthentications(s1, id)

\* callback(err) / callback(null, result): the continuation given to command.
Callback(s, cb, id, err, resp) ==
    LET s1 == Log(IF id = 0 THEN s ELSE [s EXCEPT !.invoked[id] = @ + 1],
                  E("callback", err, cb, id))
    IN  IF cb = "ismaster"
        THEN ismasterCallback(s1, id, err, resp)
        ELSE s1

\* commandCallback with the continuation called before the endOperation hooks.
commandCallback_CallbackFirst(s, l, err, resp) ==
    notifyStrategies(Callback(s, l.cb, l.id, err, resp), "endOperation")

\* The listener that command registers under query.requestId.
commandCallback(s, l, err, resp) ==
    Callback(notifyStrategies(s, "endOperation"), l.cb, l.id, err, resp)

\* RegisterCallback with callbacks.on in place of callbacks.once.
RegisterCallback_On(s, id, cb) ==
    Log([s EXCEPT !.callbacks = Append(@, [id |-> id, cb |-> cb, p |-> s.pool,
                                           once |-> FALSE])],
        E("register", cb, "", id))

\* callbacks.once(query.requestId, listener)
RegisterCallback(s, id, cb) ==
    Log([s EXCEPT !.callbacks = Append(@, [id |-> id, cb |-> cb, p |-> s.pool,
                                           once |-> TRUE])],
        E("register", cb, "", id))

\* callbacks.emit(id, err, response): a once-listener is removed, then run;
\* with no listener for the id the emit does nothing.
CallbacksEmit(s, id, err, resp) ==
    LET ls == SelectSeq(s.callbacks, LAMBDA l : l.id = id)
    IN  IF ls = <<>> THEN s
        ELSE LET l == ls[1]
                 s1 == IF l.once
                       THEN [s EXCEPT !.callbacks = SelectSeq(@, LAMBDA x : x.id # id)]
                       ELSE s
             IN  commandCallback(s1, l, err, resp)

\* Server.command(ns, cmd, options, callback).  readPref is the kind of
\* options.readPreference: "none", "ReadPreference" or "plain" (a plain value).
command(s, cb, readPref) ==
    IF readPref = "plain"
    THEN Throw(s, "readPreference must be an instance of ReadPreference")
    ELSE IF s.pool = 0
    THEN Throw(s, "TypeError")
    ELSE IF ~PoolIsConnected(s)
    THEN Callback(s, cb, 0, "no connection available", "none")
    ELSE LET id == s.requestId
             s1 == [s EXCEPT !.requestId = @ + 1]
             s2 == IF ~s1.strategiesNull
                   THEN notifyStrategies(s1, "startOperation")
                   ELSE s1
             s3 == RegisterCallback(s2, id, cb)
         IN  ConnectionWrite(s3, id)

\* executeWrite without the check of ops.length.
executeWrite_NoCheck(s, type, nOps) ==
    command(Log(s, E("writeCommand", "", "", nOps)), "user", "none")

\* executeWrite(self, type, opsField, ns, ops, options, callback)
executeWrite(s, type, nOps) ==
    IF nOps = 0
    THEN Throw(s, "insert must contain at least one document")
    ELSE command(Log(s, E("writeCommand", "", "", nOps)), "user", "none")

(***************************************************************************)
(* The Server's handlers.                                                  *)
(***************************************************************************)
\* Server.destroy()
destroy(s) ==
    IF s.pool = 0
    THEN Throw(s, "TypeError")
    ELSE PoolDestroy(PoolRemoveAllListeners(s, Events))

\* messageHandler(response, connection)
messageHandler(s, id, resp) == CallbacksEmit(s, id, "ok", resp)

\* errorHandler without self.destroy().
errorHandler_NoDestroy(s) ==
    LET s1 == IF ~s.strategiesNull THEN notifyStrategies(s, "error") ELSE s
        s3 == flush(s1, "error")
        s4 == IF s3.emitError THEN Emit(s3, "error", "", 0) ELSE s3
    IN  IF s4.reconnect THEN setTimeout(s4) ELSE s4

\* errorHandler(err, connection)
errorHandler(s) ==
    LET s1 == IF ~s.strategiesNull THEN notifyStrategies(s, "error") ELSE s
        s2 == destroy(s1)
        s3 == flush(s2, "error")
        s4 == IF s3.emitError THEN Emit(s3, "error", "", 0) ELSE s3
    IN  IF s4.reconnect THEN setTimeout(s4) ELSE s4

\* fatalErrorHandler(err, connection)
fatalErrorHandler(s) ==
    LET s1 == IF ~s.strategiesNull THEN notifyStrategies(s, "error") ELSE s
        s2 == destroy(s1)
        s3 == flush(s2, "error")
        s4 == Emit(s3, "error", "", 0)
    IN  IF s4.reconnect THEN setTimeout(s4) ELSE s4

\* timeoutHandler(err, connection)
timeoutHandler(s) ==
    LET s1 == IF ~s.strategiesNull THEN notifyStrategies(s, "timeout") ELSE s
        s2 == destroy(s1)
        s3 == flush(s2, "timeout")
        s4 == Emit(s3, "timeout", "", 0)
    IN  IF s4.reconnect THEN setTimeout(s4) ELSE s4

\* callbacks.emit(id, err, null) for every listener of ls, at once.
RECURSIVE EmitAll(_, _, _)
EmitAll(s, ls, err) ==
    IF ls = <<>> THEN s
    ELSE EmitAll(CallbacksEmit(s, Head(ls).id, err, "none"), Tail(ls), err)

\* closeHandler with a flush that emits at once instead of in process.nextTick.
closeHandler_SyncFlush(s) ==
    LET s1 == IF ~s.strategiesNull THEN notifyStrategies(s, "close") ELSE s
        s2 == destroy(s1)
        s3 == EmitAll(Log(s2, E("flush", "close", "", Len(s2.callbacks))),
                      s2.callbacks, "close")
        s4 == Emit(s3, "close", "", 0)
    IN  IF s4.reconnect THEN setTimeout(s4) ELSE s4

\* closeHandler(err, connection)
closeHandler(s) ==
    LET s1 == IF ~s.strategiesNull THEN notifyStrategies(s, "close") ELSE s
        s2 == destroy(s1)
        s3 == flush(s2, "close")
        s4 == Emit(s3, "close", "", 0)
    IN  IF s4.reconnect THEN setTimeout(s4) ELSE s4

\* connectHandler(connection): execute an ismaster
connectHandler(s) == command(s, "ismaster", "none")

\* The errorHandler local to reconnectServer.
reconnectErrorHandler(s) ==
    LET s1 == PoolDestroy(s)
        s2 == [s1 EXCEPT !.currentReconnectRetry = @ - 1]
    IN  IF s2.currentReconnectRetry <= 0
        THEN Emit(s2, "error", "failed to connect", 0)
        ELSE setTimeout(s2)

\* The pool.once('connect', ...) listener of reconnectServer.  Inside
\* reconnectServer the name errorHandler is the local one.  Every call of
\* reconnectServer has its own listener and its own count: p, the pool that
\* call created and that now signals, names them; the name pool in the
\* listener's body is the Server's variable, the current handle.
reconnectConnectHandler(s, p) ==
    LET s1 == PoolRemoveAllListeners(s, {"error", "close", "timeout", "parseError"})
        s2 == PoolOn(s1, "error", "reconnectErrorHandler")
        s3 == PoolOn(s2, "close", "closeHandler")
        s4 == PoolOn(s3, "timeout", "timeoutHandler")
        s5 == PoolOn(s4, "message", "messageHandler")
        s6 == PoolOn(s5, "parseError", "fatalErrorHandler")
    IN  IF Cardinality(s6.authProviders) = 0
        THEN Emit(s6, "reconnect", "", p)
        ELSE Reauthenticate(s6, "reconnect", p)

\* reconnectServer()
reconnectServer(s) ==
    LET s1 == [s EXCEPT !.currentReconnectRetry = s.reconnectTries]
        s2 == NewPool(s1)
        s3 == PoolOnce(s2, "connect", "reconnectConnectHandler")
        s4 == PoolOnce(s3, "error", "reconnectErrorHandler")
        s5 == PoolOnce(s4, "close", "reconnectErrorHandler")
        s6 == PoolOnce(s5, "timeout", "reconnectErrorHandler")
        s7 == PoolOnce(s6, "parseError", "reconnectErrorHandler")
    IN  PoolConnect(s7)

\* Server.connect()
connect(s) ==
    LET s1 == IF s.pool # 0 THEN PoolDestroy(s) ELSE s
        s2 == NewPool(s1)
        s3 == PoolOn(s2, "timeout", "timeoutHandler")
        s4 == PoolOn(s3, "close", "closeHandler")
        s5 == PoolOn(s4, "error", "errorHandler")
        s6 == PoolOn(s5, "message", "messageHandler")
        s7 == PoolOn(s6, "connect", "connectHandler")
        s8 == PoolOn(s7, "parseError", "fatalErrorHandler")
    IN  PoolConnect(s8)

\* Server.isConnected()
isConnected(s) == IF s.pool # 0 THEN PoolIsConnected(s) ELSE FALSE

\* Server.insert / update / remove
insert(s, nOps) == executeWrite(s, "insert", nOps)

update(s, nOps) == executeWrite(s, "update", nOps)

remove(s, nOps) == executeWrite(s, "delete", nOps)

\* Server.lastIsMaster()
lastIsMaster(s) == s.ismaster

\* Server.addReadPreferenceStrategy(name, strategy): a null map becomes an
\* empty one; an existing key keeps its place, a new key goes last.
addReadPreferenceStrategy(s, name, strategy) ==
    LET cur == IF s.strategiesNull THEN <<>> ELSE s.readPreferenceStrategies
    IN  [s EXCEPT !.strategiesNull = FALSE,
                  !.readPreferenceStrategies =
                      IF \E i \in 1..Len(cur) : cur[i].name = name
                      THEN [i \in 1..Len(cur) |->
                               IF cur[i].name = name THEN strategy ELSE cur[i]]
                      ELSE Append(cur, strategy)]

\* Server.addAuthProvider(name, provider)
addAuthProvider(s, name) == [s EXCEPT !.authProviders = @ \cup {name}]

(***************************************************************************)
(* EventEmitter.emit on a pool: the listeners registered at the time of    *)
(* the emit run in order; a once-listener is removed before it runs.       *)
(***************************************************************************)
RunListener(s, p, h, id, resp) ==
    CASE h = "messageHandler" -> messageHandler(s, id, resp)
      [] h = "errorHandler" -> errorHandler(s)
      [] h = "fatalErrorHandler" -> fatalErrorHandler(s)
      [] h = "timeoutHandler" -> timeoutHandler(s)
      [] h = "closeHandler" -> closeHandler(s)
      [] h = "connectHandler" -> connectHandler(s)
      [] h = "reconnectErrorHandler" -> reconnectErrorHandler(s)
      [] h = "reconnectConnectHandler" -> reconnectConnectHandler(s, p)

RemoveFirst(ls, l) ==
    LET i == CHOOSE j \in 1..Len(ls) : ls[j] = l /\ \A k \in 1..(j - 1) : ls[k] # l
    IN  SubSeq(ls, 1, i - 1) \o SubSeq(ls, i + 1, Len(ls))

RECURSIVE RunListeners(_, _, _, _, _, _)
RunListeners(s, p, ev, ls, id, resp) ==
    IF ls = <<>> THEN s
    ELSE LET l == Head(ls)
             s1 == IF l.once /\ \E j \in 1..Len(s.pools[p].listeners[ev]) :
                                    s.pools[p].listeners[ev][j] = l
                   THEN [s EXCEPT !.pools[p].listeners[ev] = RemoveFirst(@, l)]
                   ELSE s
         IN  RunListeners(RunListener(s1, p, l.h, id, resp), p, ev, Tail(ls), id, resp)

PoolEmit(s, p, ev, id, resp) ==
    RunListeners(s, p, ev, s.pools[p].listeners[ev], id, resp)

(***************************************************************************)
(* History kept beside the program's state: which continuations were       *)
(* pending on a connection when it failed, and how far the current         *)
(* sequence of reconnect attempts has got.                                 *)
(***************************************************************************)
NoSeq == [active |-> FALSE, clean |-> TRUE, failed |-> 0, terminal |-> 0]

Emitted(tr, ev, why) ==
    {i \in 1..Len(tr) : tr[i].t = "emit" /\ tr[i].a = ev /\ tr[i].b = why}

\* The ids registered for frames written on pool p.
PendingOn(cbs, p) == {cbs[i].id : i \in {j \in 1..Len(cbs) : cbs[j].p = p}}

\* A failure signal of a pool was handled by listener l, leaving state s.
SeqAfterFailure(s, l) ==
    IF l.h = "reconnectErrorHandler"
    THEN IF l.once /\ seq.active /\ seq.clean
         THEN [seq EXCEPT !.failed = @ + 1,
                          !.terminal = @ + Cardinality(Emitted(s.trace, "error",
                                                               "failed to connect"))]
         ELSE [NoSeq EXCEPT !.active = TRUE, !.clean = FALSE]
    ELSE IF s.reconnect
         THEN [NoSeq EXCEPT !.active = TRUE, !.clean = ~seq.active /\ timers = 0]
         ELSE seq

\* An explicit connect() or destroy() interferes with a running sequence.
SeqAfterCall ==
    IF seq.active THEN [NoSeq EXCEPT !.active = TRUE, !.clean = FALSE] ELSE seq

\* The 'connect' and 'reconnect' events of trace tr, numbered per negotiation.
AnnouncedAfter(tr) ==
    announced \cup
    { << tr[i].a, tr[i].n,
         Cardinality({x \in announced : x[1] = tr[i].a /\ x[2] = tr[i].n})
         + Cardinality({j \in 1..i : tr[j].t = "emit" /\ tr[j].a = tr[i].a
                                     /\ tr[j].n = tr[i].n}) >> :
        i \in {j \in 1..Len(tr) : tr[j].t = "emit" /\ tr[j].a \in {"connect", "reconnect"}} }

\* The failure events ('error', 'timeout', 'close') emitted in trace tr.
FailureEmits(tr) ==
    {i \in 1..Len(tr) : tr[i].t = "emit" /\ tr[i].a \in {"error", "timeout", "close"}}

\* The frames written in trace tr.
Written(tr) == {tr[i].n : i \in {j \in 1..Len(tr) : tr[j].t = "write"}}

(***************************************************************************)
(* The initial state: a Server just constructed from its options.          *)
(***************************************************************************)
Init ==
    /\ \E o \in Options :
        /\ reconnect = o.reconnect
        /\ emitError = o.emitError
        /\ reconnectTries = o.reconnectTries
        /\ strategiesNull = o.plugins.strategiesNull
        /\ readPreferenceStrategies = o.plugins.strategies
        /\ authProviders = o.plugins.providers
    /\ currentReconnectRetry = reconnectTries
    /\ ismaster = "null"
    /\ pool = 0
    /\ pools = <<>>
    /\ callbacks = <<>>
    /\ nextTicks = <<>>
    /\ timers = 0
    /\ outstanding = {}
    /\ requestId = 1
    /\ authWaits = {}
    /\ hookWaits = {}
    /\ trace = <<>>
    /\ invoked = [i \in 1..(MaxReq + 1) |-> 0]
    /\ lost = {}
    /\ calls = 0
    /\ down = FALSE
    /\ unsupported = {}
    /\ seq = NoSeq
    /\ announced = {}
    /\ negotiation = {}
    /\ flushed = {}
    /\ stopped = FALSE
    /\ late = {}

(***************************************************************************)
(* The caller's operations.  A caller may run between two deferred         *)
(* callbacks: an observer's listener or a continuation can call back in.   *)
(***************************************************************************)
UserConnect ==
    LET s == connect(Call(St, E("call", "connect", "", 0)))
    IN  /\ WithinBounds(s)
        /\ Commit([s EXCEPT !.seq = SeqAfterCall, !.stopped = FALSE])

UserDestroy ==
    LET s == destroy(Call(St, E("call", "destroy", "", 0)))
    IN  /\ WithinBounds(s)
        /\ Commit([s EXCEPT !.seq = SeqAfterCall, !.stopped = TRUE])

UserCommand ==
    \E readPref \in {"none", "ReadPreference", "plain"} :
        LET s == command(Call(St, E("call",
                                    IF readPref = "plain" THEN "command(plain)" ELSE "command",
                                    IF isConnected(St) THEN "connected" ELSE "", 0)),
                         "user", readPref)
        IN  /\ WithinBounds(s)
            /\ Commit(s)

UserWrite ==
    \E type \in {"insert", "update", "remove"}, nOps \in 0..1 :
        LET s0 == Call(St, E("call", "write", IF isConnected(St) THEN "connected" ELSE "", nOps))
            s == CASE type = "insert" -> insert(s0, nOps)
                   [] type = "update" -> update(s0, nOps)
                   [] type = "remove" -> remove(s0, nOps)
        IN  /\ WithinBounds(s)
            /\ Commit(s)

\* The strategies and providers a caller registers after construction.
NewStrategies == { Strategy("s1", {"endOperation"}), Strategy("s3", AllHooks) }

NewProviders == {"a3"}

UserAddReadPreferenceStrategy ==
    \E strategy \in NewStrategies :
        LET s == addReadPreferenceStrategy(
                     Call(St, E("call", "addReadPreferenceStrategy", strategy.name, 0)),
                     strategy.name, strategy)
        IN  /\ WithinBounds(s)
            /\ Commit([s EXCEPT !.late = @ \cup
                         { << callbacks[i].id, strategy.name >> : i \in 1..Len(callbacks) }])

UserAddAuthProvider ==
    \E name \in NewProviders :
        LET s == addAuthProvider(Call(St, E("call", "addAuthProvider", name, 0)), name)
        IN  /\ WithinBounds(s)
            /\ Commit(s)

(***************************************************************************)
(* The steps of the environment: the pool's events, the event loop's       *)
(* deferred callbacks and timers, and the plugins' callbacks.  Pool events *)
(* and timers are dispatched by the event loop, after the nextTick queue   *)
(* has drained.  A destroyed pool emits nothing.                           *)
(***************************************************************************)
\* The pool's low-level connect succeeded: it emits 'connect'.
PoolConnected ==
    \E p \in 1..Len(pools) :
        /\ pools[p].state = "connecting"
        /\ nextTicks = <<>>
        /\ LET s0 == Begin([St EXCEPT !.pools[p].state = "connected"],
                           E("signal", "connect", "", p))
               s == PoolEmit(s0, p, "connect", 0, "none")
               ls == pools[p].listeners["connect"]
           IN  /\ WithinBounds(s)
               /\ Commit([s EXCEPT
                            !.down = IF p = pool THEN FALSE ELSE @,
                            !.seq = IF ls # <<>> /\ ls[1].h = "reconnectConnectHandler"
                                    THEN NoSeq ELSE seq,
                            !.announced = AnnouncedAfter(s.trace),
                            !.negotiation = @ \cup {<< s.pool, id >> : id \in Written(s.trace)}])

\* The pool emits a terminal signal: error, timeout, close or parseError.
PoolFailure ==
    \E p \in 1..Len(pools), kind \in FailureKinds :
        /\ pools[p].state \in {"connecting", "connected"}
        /\ pools[p].listeners[kind] # <<>>
        /\ nextTicks = <<>>
        /\ LET s0 == Begin(St, E("signal", kind, pools[p].listeners[kind][1].h, p))
               s == PoolEmit(s0, p, kind, 0, "none")
           IN  /\ WithinBounds(s)
               /\ Commit([s EXCEPT
                            !.lost = @ \cup PendingOn(callbacks, p),
                            !.down = TRUE,
                            !.seq = SeqAfterFailure(s, pools[p].listeners[kind][1])])

\* The kinds of response a frame can get: an ismaster document with or
\* without a numeric minWireVersion, or a command's document.
Responses(id) ==
    IF \E i \in 1..Len(callbacks) : callbacks[i].id = id /\ callbacks[i].cb = "ismaster"
    THEN {"valid", "nowire"}
    ELSE {"doc"}

\* The pool emits 'message' with the response to a frame written on it.
PoolMessage ==
    \E o \in outstanding :
        \E resp \in Responses(o[2]) :
            /\ pools[o[1]].state = "connected"
            /\ nextTicks = <<>>
            /\ LET s0 == Begin([St EXCEPT !.outstanding = @ \ {o}],
                               E("signal", "message", resp, o[2]))
                   s == PoolEmit(s0, o[1], "message", o[2], resp)
               IN  Commit([s EXCEPT !.unsupported =
                             IF resp = "nowire" THEN @ \cup {o[2]} ELSE @,
                           !.announced = AnnouncedAfter(s.trace)])

\* The event loop runs the next process.nextTick callback of a flush.
RunNextTick ==
    /\ nextTicks # <<>>
    /\ LET tick == Head(nextTicks)
           s0 == Begin([St EXCEPT !.nextTicks = Tail(@)],
                       E("nextTick", tick.err, "", tick.id))
           s == CallbacksEmit(s0, tick.id, tick.err, "none")
       IN  Commit([s EXCEPT
                     !.flushed = IF \E i \in 1..Len(s.trace) : s.trace[i].t = "callback"
                                 THEN @ \cup {tick.id} ELSE @,
                     !.announced = AnnouncedAfter(s.trace)])

\* A reconnect timer fires.
ReconnectTimer ==
    /\ timers > 0
    /\ nextTicks = <<>>
    /\ LET s0 == Begin([St EXCEPT !.timers = @ - 1], E("timer", "", "", 0))
           s == reconnectServer(s0)
       IN  /\ WithinBounds(s)
           /\ Commit(s)

\* An authentication provider calls back from reauthenticate.
AuthCallback ==
    \E w \in authWaits :
        /\ w.waiting > 0
        /\ nextTicks = <<>>
        /\ LET s == authCallback(Begin(St, E("authCallback", w.kind, "", w.neg)), w)
           IN  Commit([s EXCEPT !.announced = AnnouncedAfter(s.trace)])

\* A strategy calls back from its connect hook.
HookCallback ==
    \E w \in hookWaits :
        /\ w.waiting > 0
        /\ nextTicks = <<>>
        /\ LET s == hookCallback(Begin(St, E("hookCallback", "connect", "", w.neg)), w)
           IN  Commit([s EXCEPT !.announced = AnnouncedAfter(s.trace)])

Next ==
    \/ UserConnect
    \/ UserDestroy
    \/ UserCommand
    \/ UserWrite
    \/ PoolConnected
    \/ PoolFailure
    \/ PoolMessage
    \/ RunNextTick
    \/ ReconnectTimer
    \/ AuthCallback
    \/ HookCallback

Spec == Init /\ [][Next]_vars

(***************************************************************************)
(* The Server with plugins registered after construction as well: a caller *)
(* that may call addReadPreferenceStrategy and addAuthProvider at any      *)
(* time.  It starts from every plugin set with reconnection disabled, and  *)
(* without plugins with reconnection enabled.                              *)
(***************************************************************************)
PluginInit == Init /\ reconnectTries = 1 /\ emitError = ~reconnect

PluginNext ==
    \/ Next
    \/ UserAddReadPreferenceStrategy
    \/ UserAddAuthProvider

PluginSpec == PluginInit /\ [][PluginNext]_vars

(***************************************************************************)
(* Properties.  Step(t, a) says that the last handler was of kind t on a;  *)
(* At(t, a) are the places of its trace where it did t to a.               *)
(***************************************************************************)
Step(t, a) == trace # <<>> /\ trace[1].t = t /\ trace[1].a = a

At(t, a) == {i \in 1..Len(trace) : trace[i].t = t /\ trace[i].a = a}

Did(t) == {i \in 1..Len(trace) : trace[i].t = t}

\* The last handler was a command(...) or a write of at least one operation,
\* with well-typed options, called while isConnected() was false.
CommandWhileDisconnected ==
    /\ Step("call", "command") \/ (Step("call", "write") /\ trace[1].n > 0)
    /\ trace[1].b # "connected"

\* C1: a continuation registered in the callback registry is invoked at most
\* once, whatever the interleaving of responses, failure signals, flushes
\* and reconnects.
C1_AtMostOnce == \A id \in 1..MaxReq : invoked[id] <= 1

\* C1 witness: a registered continuation has just been failed by a flush's
\* deferred emit, after a response had already resolved another one.
C1_Witness ==
    /\ Step("nextTick", "close") \/ Step("nextTick", "error") \/ Step("nextTick", "timeout")
    /\ \E i \in Did("callback") : trace[i].n > 1 /\ invoked[trace[i].n] = 1
    /\ invoked[1] = 1

\* C2 (as claimed): every continuation pending on a connection when that
\* connection fails is eventually invoked with a failure.  The only thing that
\* invokes a continuation without a response is the deferred emit a flush
\* queues, and no step of the event loop queues one by itself: so once the
\* failure is handled the continuation has run or its emit is queued.
C2_Original ==
    \A id \in lost :
        invoked[id] >= 1 \/ \E i \in 1..Len(nextTicks) : nextTicks[i].id = id

\* C3 (as claimed): in a sequence of reconnect attempts that all fail, no
\* terminal 'error' is emitted before reconnectTries attempts have failed, and
\* when reconnectTries attempts have failed exactly one terminal 'error' has
\* been emitted and no further attempt is scheduled.
C3_Original ==
    (seq.active /\ seq.clean) =>
        /\ seq.failed <= reconnectTries
        /\ seq.failed < reconnectTries => seq.terminal = 0
        /\ seq.failed = reconnectTries => seq.terminal = 1 /\ timers = 0

\* C4 (as claimed): at most one pool handle is live at any time.
C4_Original == Cardinality(LivePools) <= 1

\* C5: after a connectivity failure handled by the Server, isConnected() is
\* false until a connection attempt on the current handle succeeds.
C5_DownUntilConnect == down => ~isConnected(St)

\* C5 witness: after a handled failure a new attempt is in progress and
\* isConnected() is still false.
C5_Witness == down /\ pool # 0 /\ pools[pool].state = "connecting" /\ Step("timer", "")

\* C6 (as claimed): command called while isConnected() is false delivers the
\* 'no connection available' failure to the continuation, registers nothing
\* and writes nothing.
C6_Original ==
    CommandWhileDisconnected =>
        /\ At("callback", "no connection available") # {}
        /\ Did("register") = {}
        /\ Did("write") = {}

\* C7: a negotiation whose ismaster response lacks a numeric minWireVersion
\* emits 'error' for it, and neither then nor later emits 'connect', calls a
\* provider's reauthenticate or a strategy's connect hook for it.
C7_Unsupported ==
    /\ (Step("signal", "message") /\ trace[1].b = "nowire") =>
          /\ Cardinality({i \in At("emit", "error") :
                            trace[i].b = "non supported server version"}) = 1
          /\ At("emit", "connect") = {}
          /\ At("hook", "connect") = {}
          /\ At("reauthenticate", "connect") = {}
    /\ \A i \in At("emit", "connect") \cup At("reauthenticate", "connect") :
          trace[i].n \notin unsupported
    /\ \A w \in hookWaits : w.neg \notin unsupported
    /\ \A w \in authWaits : w.kind = "connect" => w.neg \notin unsupported

\* C7 witness: an ismaster response without minWireVersion has just been
\* dispatched to the negotiation of a Server with providers and strategies.
C7_Witness ==
    /\ Step("signal", "message") /\ trace[1].b = "nowire"
    /\ At("emit", "error") # {}
    /\ authProviders # {} /\ readPreferenceStrategies # <<>>

\* C8 (as claimed): a parseError signal of a pool the Server listens to is
\* announced as an 'error' event, whatever emitError says.
C8_Original == (\E h \in {"fatalErrorHandler", "reconnectErrorHandler"} :
                    Step("signal", "parseError") /\ trace[1].b = h)
               => At("emit", "error") # {}

\* C9: the startOperation hook of every strategy runs before the frame is
\* written; endOperation hooks run only when a response or a failure is
\* dispatched from the registry, and the continuation runs after the
\* endOperation hook of every strategy.
C9_HookOrder ==
    /\ \A w \in Did("write") :
          \A name \in Implementing(St, "startOperation") :
              \E h \in At("hook", "startOperation") : trace[h].b = name /\ h < w
    /\ At("hook", "endOperation") # {} =>
          trace[1].t = "nextTick" \/ Step("signal", "message")
    /\ \A c \in {i \in Did("callback") : trace[i].n > 0} :
          \A name \in Implementing(St, "endOperation") :
              \E h \in At("hook", "endOperation") : trace[h].b = name /\ h < c
    /\ \A h \in At("hook", "endOperation") :
          \E c \in Did("callback") : trace[c].n > 0 /\ h < c

\* C9 witness: with two strategies registered, a response has just been
\* dispatched: both endOperation hooks ran, then the caller's continuation.
C9_Witness ==
    /\ Step("signal", "message")
    /\ Cardinality(At("hook", "endOperation")) = 2
    /\ \E c \in At("callback", "ok") : trace[c].b = "user"

\* C10: insert, update and remove with zero operations throw at once: nothing
\* is written, nothing is registered and the continuation is not called.
C10_EmptyWrite ==
    (Step("call", "write") /\ trace[1].n = 0) =>
        trace = << trace[1],
                   E("throw", "insert must contain at least one document", "", 0) >>

\* C10 witness: a write with zero operations was called on a connected Server.
C10_Witness ==
    Step("call", "write") /\ trace[1].n = 0 /\ trace[1].b = "connected" /\ Did("throw") # {}

\* C11 (as claimed): destroy() called in any lifecycle state, also before any
\* connect() and after a previous destroy(), completes without error, leaves
\* no listener on the current pool handle and leaves the handle destroyed; a
\* second destroy() leaves the state as the first one left it.
C11_Original ==
    Step("call", "destroy") =>
        /\ Did("throw") = {}
        /\ pool # 0 => /\ pools[pool].state = "destroyed"
                       /\ pools[pool].listeners = NoListeners
        /\ LET again == destroy(Begin(St, trace[1]))
           IN  /\ ~Thrown(again)
               /\ again.pool = pool /\ again.pools = pools
               /\ again.callbacks = callbacks /\ again.timers = timers

\* The last handler handled a terminal signal of pool trace[1].n on an
\* established connection or on one connect() is establishing: by one of
\* the Server's four failure handlers, or by the 'error' listener that
\* reconnectServer attaches once the pool has connected.
FailureHandled ==
    /\ \E kind \in FailureKinds : Step("signal", kind)
    /\ \/ trace[1].b \in {"errorHandler", "fatalErrorHandler", "timeoutHandler",
                          "closeHandler"}
       \/ /\ trace[1].b = "reconnectErrorHandler"
          /\ pools[trace[1].n].listeners["message"] # <<>>

\* The hook a failure kind notifies the strategies with.
FailureHook(kind) == IF kind = "parseError" THEN "error" ELSE kind

\* C12 (as claimed): for every failure kind handled on a connection the
\* steps are, in this order: strategies notified, pool handle destroyed,
\* registry flushed, failure event announced (an 'error' only if emitError
\* says so), reconnect scheduled; a reconnect is scheduled iff reconnect is
\* enabled, and with reconnect disabled only connect() creates a pool handle.
C12_Original ==
    /\ FailureHandled =>
          \E d \in Did("poolDestroy"), f \in Did("flush") :
              /\ d < f
              /\ \A name \in Implementing(St, FailureHook(trace[1].a)) :
                    \E h \in At("hook", FailureHook(trace[1].a)) :
                        trace[h].b = name /\ h < d
              /\ \A e \in FailureEmits(trace) : f < e
              /\ (trace[1].a # "error" \/ emitError) =>
                    Cardinality(FailureEmits(trace)) = 1
              /\ \A x \in Did("setTimeout") :
                    f < x /\ \A e \in FailureEmits(trace) : e < x
              /\ (Did("setTimeout") # {}) <=> reconnect
    /\ (~reconnect /\ Did("newPool") # {}) => Step("call", "connect")

\* C13: 'connect' and 'reconnect' are emitted only when no reauthenticate
\* invoked for that negotiation is still to call back, 'connect' also only
\* when no connect hook invoked for it is still to call back, and each is
\* emitted at most once per negotiation (one negotiation per pool connect).
C13_AfterCallbacks ==
    /\ \A i \in At("emit", "connect") :
          /\ \A w \in authWaits :
                (w.kind = "connect" /\ w.neg = trace[i].n) => w.waiting = 0
          /\ \A w \in hookWaits : w.neg = trace[i].n => w.waiting = 0
    /\ \A i \in At("emit", "reconnect") :
          \A w \in authWaits :
              (w.kind = "reconnect" /\ w.neg = trace[i].n) => w.waiting = 0
    /\ \A x \in announced : x[3] = 1

\* C13 witness: with two providers and two strategies registered, the last
\* connect hook has just called back and 'connect' was emitted.
C13_Witness ==
    /\ Step("hookCallback", "connect")
    /\ At("emit", "connect") # {}
    /\ Cardinality(authProviders) = 2
    /\ Len(readPreferenceStrategies) = 2

\* C14 (as claimed): after a low-level connect and a valid capability
\* response, if every invoked provider and every invoked connect hook calls
\* back, 'connect' is eventually emitted, whatever the registered strategies
\* implement.  'connect' is emitted by the last callback of a count-down and
\* by nothing else, so a count-down that is still open when no callback
\* invoked for it is left to come never emits: a finite run refutes the claim.
C14_Original ==
    /\ \A w \in hookWaits : w.waiting > 0
    /\ \A w \in authWaits : w.waiting > 0

\* The negotiation of pool p has completed: 'connect' was emitted for the
\* ismaster written on it, or 'reconnect' for the pool itself.
Ready(p) ==
    \/ \E x \in negotiation : x[1] = p /\ << "connect", x[2], 1 >> \in announced
    \/ << "reconnect", p, 1 >> \in announced

\* C15 (as claimed): no command of the caller is written to a connection
\* before the negotiation of that connection has completed.
C15_Original ==
    ((Step("call", "command") \/ Step("call", "write")) /\ Did("write") # {})
        => Ready(pool)

\* C16 (as claimed): a registration affects only operations started after
\* it: a strategy registered while a command is pending gets no
\* endOperation hook for that command, and a provider registered while a
\* count-down over the providers is running is not part of that count-down
\* (the count-down still waits for exactly the reauthenticate calls it made).
C16_Original ==
    /\ \A c \in {i \in Did("callback") : trace[i].n > 0} :
          \A h \in At("hook", "endOperation") :
              h < c => << trace[c].n, trace[h].b >> \notin late
    /\ \A w \in authWaits : w.count = w.waiting

\* C17 (as claimed): the cached capability document is invalidated by every
\* connectivity failure: once a failure has been handled, lastIsMaster()
\* returns no document until a negotiation succeeds again.
C17_Original ==
    (\E kind \in FailureKinds : Step("signal", kind)) => lastIsMaster(St) = "null"

\* C18: a flush queues one deferred emit, with its error, for exactly the
\* continuations registered at that moment and invokes none of them during
\* the handler that called it; each deferred emit invokes the continuation
\* of its own identifier and no other, so none registered later; a response
\* that arrives for an identifier a flush has failed is dropped.
C18_Flush ==
    /\ Did("flush") # {} =>
          /\ Did("callback") = {}
          /\ Len(nextTicks) = Len(callbacks)
          /\ \A i \in 1..Len(nextTicks) :
                /\ nextTicks[i].id = callbacks[i].id
                /\ \E f \in Did("flush") : trace[f].a = nextTicks[i].err
    /\ trace # <<>> /\ trace[1].t = "nextTick" =>
          /\ \E c \in Did("callback") :
                trace[c].n = trace[1].n /\ trace[c].a = trace[1].a
          /\ \A c \in Did("callback") : trace[c].n = trace[1].n
          /\ Cardinality(Did("callback")) = 1
    /\ \A i \in 1..Len(nextTicks) : nextTicks[i].id < requestId
    /\ (Step("signal", "message") /\ trace[1].n \in flushed) => Len(trace) = 1

\* C18 witness: the response to a frame arrives after a flush has failed
\* the frame's continuation.
C18_Witness == Step("signal", "message") /\ trace[1].n \in flushed

\* C19 (as claimed): a terminal pool signal results in at most one failure
\* event: its handler emits at most one, and when the handler has announced
\* the signal (always for timeout and close, for error if emitError) the
\* deferred emits of its flush announce nothing more, also while the
\* ismaster is pending; a command's own failure is announced to nobody but
\* its continuation.
C19_Original ==
    /\ (\E kind \in FailureKinds : Step("signal", kind)) =>
          Cardinality(FailureEmits(trace)) <= 1
    /\ (trace # <<>> /\ trace[1].t = "nextTick"
          /\ (trace[1].a \in {"timeout", "close"} \/ emitError)) =>
          FailureEmits(trace) = {}
    /\ (Step("call", "command") \/ Step("call", "write")) => Did("emit") = {}

\* C20 (as claimed): after the caller's destroy() the Server creates no pool
\* handle and starts no connection attempt until the caller calls connect()
\* again, also when a reconnect timer was pending at the destroy().
C20_Original == stopped => (Did("newPool") = {} /\ Did("poolConnect") = {})

====
